---- MODULE Spec2Model ----
(***************************************************************************)
(* Model of the roulette-number recognition code of KassFK/voisins:        *)
(*   - the local OpenCV pipeline  (screen_ocr_opencv.py,                   *)
(*     ScreenOCRTool.try_local_opencv_detection),                          *)
(*   - the basic OpenCV detection (screen_ocr.py,                          *)
(*     ScreenOCRTool.try_opencv_detection),                                *)
(*   - the text extractors that turn OCR text into roulette numbers,       *)
(*   - the image preprocessor (screen_ocr.py, preprocess_image_advanced),  *)
(*   - the region classifiers and detectors, the voisins trackers and the  *)
(*     web application (voisins_web.py, voisins_simple.py).                *)
(*                                                                         *)
(* The OpenCV primitives (thresholding, contour search, template           *)
(* correlation, Laplacian, ...) are library code: the model takes their    *)
(* results on the captured image as the input and models everything the    *)
(* repository's code does with them.                                       *)
(*                                                                         *)
(* Units: ratios are integers in hundredths (0.3 is 30); a confidence is   *)
(* an integer in twentieths of a percent (10% is 200, 100% is 2000), which *)
(* makes (clarity + size) / 2 exact.                                       *)
(***************************************************************************)
EXTENDS Integers, Sequences, FiniteSets, TLC

VARIABLES
    entry,          \* which entry point this behaviour exercises
    pc,             \* position inside the entry point
    image,          \* local pipeline input: per detection method, its outcome
    method_idx,     \* try_local_opencv_detection: index of the method loop
    digits,         \* regions returned by the current detection method
    region_idx,     \* index of the region loop
    all_results,    \* candidates (x, predicted, confidence, method)
    final_results,  \* fused candidates, sorted by x
    numbers,        \* the sequence returned to the caller
    raised,         \* TRUE when the call raised to its caller
    detected,       \* history: methods whose detector call has ended
    classified,     \* history: number of regions classified in this run
    run,            \* 1 or 2: the pipeline is run twice on the same image
    first_numbers,  \* the sequence the first run returned
    contours,       \* try_opencv_detection input: the contours found
    text,           \* text extractors input: the OCR text
    extractor,      \* which text extractor is applied
    failing,        \* preprocessor input: the transforms that raise
    channels,       \* preprocessor input: 1 (2-D array) or 3 (colour)
    variants,       \* preprocessor output: names of the returned variants
    frame,          \* extract_numbers_opencv input: the captured image
    digit_img,      \* region classifier input: the region
    template_result,\* what template_match_digit returned
    predicted,      \* what classify_digit_by_features returned
    consulted,      \* history: the classification strategies called
    confidence,     \* what calculate_digit_confidence returned
    version,        \* which RouletteVoisinsTracker class is exercised
    tracker,        \* the attributes of the tracker object
    before,         \* history: the attributes before the last call
    last_call,      \* history: the last call and its argument
    returned,       \* what the last add_number returned
    detector,       \* which region detector is called
    scan,           \* detector input: per pass, what OpenCV finds or raises
    pass_idx,       \* index of the pass (preprocessing variant, threshold)
    found,          \* the list `digits` of the detector
    scanned,        \* history: the passes that were started
    features,       \* screen_ocr classifier input: the analysed features
    request,        \* web application input: the request or the call
    response,       \* web application output: the response or the result
    tried           \* history: the ports start_server tried to bind

vars == <<entry, pc, image, method_idx, digits, region_idx, all_results,
          final_results, numbers, raised, detected, classified, run,
          first_numbers, contours, text, extractor, failing, channels,
          variants, frame, digit_img, template_result, predicted,
          consulted, confidence, version, tracker, before, last_call,
          returned, detector, scan, pass_idx, found, scanned, features,
          request, response, tried>>

\* the variables of the entry points of the second part of the model
vision == <<frame, digit_img, template_result, predicted, consulted,
            confidence>>

trackerVars == <<version, tracker, before, last_call, returned>>

detectorVars == <<detector, scan, pass_idx, found, scanned>>

webVars == <<request, response, tried>>

more == <<vision, trackerVars, detectorVars, features, webVars>>

\* the variables of the pipelines, the text extractors and the preprocessor
core == <<image, method_idx, digits, region_idx, all_results, final_results,
          detected, classified, run, first_numbers, contours, text,
          extractor, failing, channels, variants>>

(***************************************************************************)
(* Bounds of the model.                                                    *)
(***************************************************************************)
MaxRegions == 2

MaxCands == 3

MaxContours == 2

MaxTextLen == 5

MaxHistory == 4

MaxScanContours == 2

\* the items tesseract finds on an image
MaxWords == 3

\* the length of the list posted to /analyze_numbers
MaxNumbers == 4

\* the recursion limit of the interpreter, in calls of start_server
MaxRecursion == 3

(***************************************************************************)
(* Program constants.                                                      *)
(***************************************************************************)
NumMethods == 4

BucketWidth == 30

MaxRoulette == 36

NoDigit == -1

MinTemplateScore == 30

Methods == 1..NumMethods

(***************************************************************************)
(* Generic helpers.                                                        *)
(***************************************************************************)
Min(a, b) == IF a < b THEN a ELSE b

Max(a, b) == IF a > b THEN a ELSE b

Range(s) == {s[i] : i \in DOMAIN s}

RECURSIVE SeqsUpTo(_, _)
SeqsUpTo(S, n) ==
    IF n = 0 THEN {<<>>}
    ELSE LET shorter == SeqsUpTo(S, n - 1)
         IN  shorter \cup {Append(s, e) : s \in {t \in shorter : Len(t) = n - 1}, e \in S}

(***************************************************************************)
(* Range filter: `predicted is not None and 0 <= predicted <= 36`*)
(***************************************************************************)
InRangeAlways(n) == TRUE

InRange(n) == n # NoDigit /\ 0 <= n /\ n <= MaxRoulette

(***************************************************************************)
(* Fusion (try_local_opencv_detection, "Remove duplicates and sort").      *)
(* unique_results is a dict: modelled as the sequence of its values in     *)
(* key-insertion order (a dict keeps a key's place when its value is       *)
(* replaced).                                                              *)
(***************************************************************************)
BucketOf(x) == x \div BucketWidth

BucketKey(c) == <<BucketOf(c.x), c.num>>

ReplacesLower(old, new) == old.conf > new.conf

Replaces(old, new) == old.conf < new.conf

DictPut(d, c) ==
    IF \E i \in DOMAIN d : BucketKey(d[i]) = BucketKey(c)
    THEN LET i == CHOOSE j \in DOMAIN d : BucketKey(d[j]) = BucketKey(c)
         IN  IF Replaces(d[i], c) THEN [d EXCEPT ![i] = c] ELSE d
    ELSE Append(d, c)

RECURSIVE UniqueFrom(_, _)
UniqueFrom(rest, d) ==
    IF rest = <<>> THEN d ELSE UniqueFrom(Tail(rest), DictPut(d, Head(rest)))

UniqueResults(all) == UniqueFrom(all, <<>>)

SortKeyDescending(c) == 0 - c.x

SortKey(c) == c.x

\* sorted() is stable: an element goes after every element whose key is
\* not greater than its own.
InsertSorted(s, c) ==
    LET p == Cardinality({i \in DOMAIN s : SortKey(s[i]) <= SortKey(c)})
    IN  SubSeq(s, 1, p) \o <<c>> \o SubSeq(s, p + 1, Len(s))

RECURSIVE SortedFrom(_, _)
SortedFrom(rest, acc) ==
    IF rest = <<>> THEN acc ELSE SortedFrom(Tail(rest), InsertSorted(acc, Head(rest)))

SortedByX(s) == SortedFrom(s, <<>>)

FuseResults(all) == SortedByX(UniqueResults(all))

NumbersOf(final) == [i \in DOMAIN final |-> final[i].num]

(***************************************************************************)
(* Region classifier (screen_ocr_opencv.py).  A digit image is the record  *)
(* of what the OpenCV primitives measure on it:                            *)
(*   resize_ok  cv2.resize succeeds,                                       *)
(*   scores     scores[d + 1] is the correlation with the template of d,   *)
(*   feat_ok    the feature analysis succeeds (else it returns {}),        *)
(*   feat       the features,                                              *)
(*   lap_ok     cv2.Laplacian succeeds,  lap  its variance,                *)
(*   hw         height * width of the region.                              *)
(***************************************************************************)
RECURSIVE TemplateFrom(_, _, _, _)
TemplateFrom(scores, d, best_match, best_score) ==
    IF d > 9 THEN best_match
    ELSE IF scores[d + 1] > best_score /\ scores[d + 1] > MinTemplateScore
         THEN TemplateFrom(scores, d + 1, d, scores[d + 1])
         ELSE TemplateFrom(scores, d + 1, best_match, best_score)

TemplateMatchLoose(scores) ==
    IF \E d \in 0..9 : scores[d + 1] >= MinTemplateScore
    THEN CHOOSE d \in 0..9 :
            /\ \A e \in 0..9 : scores[e + 1] <= scores[d + 1]
            /\ \A e \in 0..(d - 1) : scores[e + 1] < scores[d + 1]
    ELSE NoDigit

\* template_match_digit: the digit, or NoDigit for None
TemplateMatchDigit(scores) == TemplateFrom(scores, 0, NoDigit, 0)

\* classify_by_enhanced_features: the set of values the call may return
\* (random.choice makes it more than one)
ClassifyByEnhancedFeatures(feat_ok, f) ==
    IF ~feat_ok THEN {NoDigit}
    ELSE IF f.holes >= 2 THEN {8}
    ELSE IF f.holes = 1
         THEN IF f.fill_ratio > 40 THEN {0}
              ELSE IF f.top_heavy > 40 THEN {9} ELSE {6}
    ELSE IF f.aspect_ratio < 50 THEN {1}
    ELSE IF f.top_heavy > 60 THEN {7}
    ELSE IF f.bottom_heavy > 60 /\ f.corners > 3 THEN {2}
    ELSE IF f.fill_ratio < 20 THEN {1}
    ELSE IF f.corners > 4
         THEN IF f.aspect_ratio > 70 THEN {4} ELSE {2}
    ELSE IF f.fill_ratio > 35 THEN {0, 3, 5, 6, 8, 9}
    ELSE {1, 2, 4, 7}

\* classify_digit_by_features: template matching first, features second;
\* any exception inside is caught and gives None
ClassifyDigitByFeatures(img) ==
    IF ~img.resize_ok THEN {NoDigit}
    ELSE IF TemplateMatchDigit(img.scores) # NoDigit
         THEN {TemplateMatchDigit(img.scores)}
         ELSE ClassifyByEnhancedFeatures(img.feat_ok, img.feat)

CalculateDigitConfidenceUnclamped(img) ==
    IF ~img.lap_ok THEN 1000
    ELSE Min(1000, img.lap) + Min(1000, img.hw)

\* calculate_digit_confidence, in twentieths of a percent
CalculateDigitConfidence(img) ==
    IF ~img.lap_ok THEN 1000
    ELSE Min(2000, Max(200, Min(1000, img.lap) + Min(1000, img.hw)))

(***************************************************************************)
(* Sample digit images and regions for the pipeline.                       *)
(***************************************************************************)
TmplScores(d, s) == [i \in 1..10 |-> IF i = d + 1 THEN s ELSE 10]

FlatScores == [i \in 1..10 |-> 20]

PlainFeat == [holes |-> 0, fill_ratio |-> 30, aspect_ratio |-> 100,
              top_heavy |-> 30, bottom_heavy |-> 30, corners |-> 2]

\* a crisp "7": the template of 7 correlates at 0.80
Glyph7 == [resize_ok |-> TRUE, scores |-> TmplScores(7, 80), feat_ok |-> TRUE,
           feat |-> PlainFeat, lap_ok |-> TRUE, lap |-> 900, hw |-> 600]

\* no template above 0.3 and features that reach the final else branch
GlyphAmbiguous == [resize_ok |-> TRUE, scores |-> FlatScores, feat_ok |-> TRUE,
                   feat |-> PlainFeat, lap_ok |-> TRUE, lap |-> 300, hw |-> 400]

\* a region whose classification fails inside classify_digit_by_features
GlyphBroken == [resize_ok |-> FALSE, scores |-> FlatScores, feat_ok |-> FALSE,
                feat |-> PlainFeat, lap_ok |-> TRUE, lap |-> 300, hw |-> 400]

SampleImgs == {Glyph7, GlyphAmbiguous, GlyphBroken}

RegionXs == {5, 40}

Regions == {[x |-> x, img |-> g] : x \in RegionXs, g \in SampleImgs}

\* what one detection method does on the image: it raises, or returns regions
MethodOutcomes(budget) ==
    {[raises |-> TRUE, regions |-> <<>>]}
    \cup {[raises |-> FALSE, regions |-> s] : s \in SeqsUpTo(Regions, budget)}

\* the images: one outcome per method, at most `budget` regions in all
RECURSIVE ImagesFrom(_, _)
ImagesFrom(k, budget) ==
    IF k = 0 THEN {<<>>}
    ELSE UNION { {<<o>> \o rest : rest \in ImagesFrom(k - 1, budget - Len(o.regions))}
                 : o \in MethodOutcomes(budget) }

Images == ImagesFrom(NumMethods, MaxRegions)

EmptyImage == [m \in Methods |-> [raises |-> FALSE, regions |-> <<>>]]

(***************************************************************************)
(* try_local_opencv_detection, step by step.                               *)
(***************************************************************************)
\* where the method loop goes after method m
AbortAfterMethod(m) == [pc |-> "fuse", method_idx |-> m + 1]

AfterMethod(m) ==
    IF m < NumMethods THEN [pc |-> "detect", method_idx |-> m + 1]
    ELSE [pc |-> "fuse", method_idx |-> m + 1]

\* where the run goes when method m raises: `except ... continue`
AbortOnFailure(m) == [pc |-> "done", method_idx |-> m]

OnMethodFailure(m) == AfterMethod(m)

\* digits = method(gray)
Detect ==
    /\ entry = "local"
    /\ pc = "detect"
    /\ method_idx \in Methods
    /\ detected' = detected \cup {method_idx}
    /\ IF image[method_idx].raises
       THEN /\ pc' = OnMethodFailure(method_idx).pc
            /\ method_idx' = OnMethodFailure(method_idx).method_idx
            /\ UNCHANGED <<digits, region_idx>>
       ELSE IF image[method_idx].regions = <<>>
       THEN /\ pc' = AfterMethod(method_idx).pc
            /\ method_idx' = AfterMethod(method_idx).method_idx
            /\ digits' = <<>>
            /\ region_idx' = 1
       ELSE /\ pc' = "classify"
            /\ digits' = image[method_idx].regions
            /\ region_idx' = 1
            /\ UNCHANGED method_idx
    /\ UNCHANGED <<more, entry, image, all_results, final_results, numbers, raised,
                   classified, run, first_numbers, contours, text, extractor,
                   failing, channels, variants>>

\* one pass of `for x, y, w, h, digit_img in digits`
Classify ==
    /\ entry = "local"
    /\ pc = "classify"
    /\ region_idx \in DOMAIN digits
    /\ \E predicted_digit \in ClassifyDigitByFeatures(digits[region_idx].img) :
          all_results' =
              IF InRange(predicted_digit)
              THEN Append(all_results,
                          [x |-> digits[region_idx].x, num |-> predicted_digit,
                           conf |-> CalculateDigitConfidence(digits[region_idx].img),
                           method |-> method_idx])
              ELSE all_results
    /\ classified' = classified + 1
    /\ IF region_idx < Len(digits)
       THEN /\ region_idx' = region_idx + 1
            /\ UNCHANGED <<pc, method_idx>>
       ELSE /\ pc' = AfterMethod(method_idx).pc
            /\ method_idx' = AfterMethod(method_idx).method_idx
            /\ UNCHANGED region_idx
    /\ UNCHANGED <<more, entry, image, digits, final_results, numbers, raised, detected,
                   run, first_numbers, contours, text, extractor, failing,
                   channels, variants>>

\* `if not all_results: return []`, else remove duplicates and sort
Fuse ==
    /\ entry \in {"local", "fuse"}
    /\ pc = "fuse"
    /\ IF all_results = <<>>
       THEN /\ pc' = "done"
            /\ numbers' = <<>>
            /\ UNCHANGED final_results
       ELSE /\ pc' = "build"
            /\ final_results' = FuseResults(all_results)
            /\ UNCHANGED numbers
    /\ UNCHANGED <<more, entry, image, method_idx, digits, region_idx, all_results,
                   raised, detected, classified, run, first_numbers, contours,
                   text, extractor, failing, channels, variants>>

\* numbers = [num for _, num, _, _ in final_results]; return numbers
Build ==
    /\ entry \in {"local", "fuse"}
    /\ pc = "build"
    /\ numbers' = NumbersOf(final_results)
    /\ pc' = "done"
    /\ UNCHANGED <<more, entry, image, method_idx, digits, region_idx, all_results,
                   final_results, raised, detected, classified, run,
                   first_numbers, contours, text, extractor, failing, channels,
                   variants>>

\* the caller runs the pipeline a second time on the same image
Rerun ==
    /\ entry = "local"
    /\ pc = "done"
    /\ run = 1
    /\ run' = 2
    /\ first_numbers' = numbers
    /\ pc' = "detect"
    /\ method_idx' = 1
    /\ digits' = <<>>
    /\ region_idx' = 1
    /\ all_results' = <<>>
    /\ final_results' = <<>>
    /\ numbers' = <<>>
    /\ detected' = {}
    /\ classified' = 0
    /\ UNCHANGED <<more, entry, image, raised, contours, text, extractor, failing,
                   channels, variants>>

(***************************************************************************)
(* try_opencv_detection (screen_ocr.py): the basic detection.  A contour   *)
(* is the record of its bounding box (x, w, h), its area and the density   *)
(* of white pixels of its region; `contours` lists the contours of the     *)
(* three thresholds 127, 100, 150 in the order the loops visit them.       *)
(***************************************************************************)
\* 100 < area < 2000 and 0.3 <= w / h <= 1.2 and h > 15 and w > 8
IsDigitContour(c) ==
    /\ 100 < c.area /\ c.area < 2000
    /\ 3 * c.h <= 10 * c.w /\ 10 * c.w <= 12 * c.h
    /\ c.h > 15 /\ c.w > 8

\* classify_simple_digit: the set of values the call may return
ClassifySimpleDigit(c) ==
    IF c.w * c.h = 0 THEN {NoDigit}
    ELSE IF c.density < 20 THEN {NoDigit}
    ELSE IF c.density > 80 THEN {NoDigit}
    ELSE 0..MaxRoulette

\* all_numbers, given the value pred[i] the classifier returned for contour i
RECURSIVE AllNumbersFrom(_, _, _)
AllNumbersFrom(cs, pred, i) ==
    IF i > Len(cs) THEN <<>>
    ELSE (IF IsDigitContour(cs[i]) /\ InRange(pred[i])
          THEN <<[x |-> cs[i].x, num |-> pred[i]]>>
          ELSE <<>>) \o AllNumbersFrom(cs, pred, i + 1)

GoodContour(x) == [x |-> x, area |-> 600, w |-> 20, h |-> 30, density |-> 50]

SampleContours ==
    {GoodContour(5), GoodContour(40),
     [x |-> 5, area |-> 600, w |-> 20, h |-> 30, density |-> 10],
     [x |-> 40, area |-> 80, w |-> 20, h |-> 30, density |-> 50]}

TryOpencvDetection ==
    /\ entry = "simple"
    /\ pc = "call"
    /\ \E pred \in [DOMAIN contours -> 0..MaxRoulette \cup {NoDigit}] :
          /\ \A i \in DOMAIN contours :
                IsDigitContour(contours[i]) => pred[i] \in ClassifySimpleDigit(contours[i])
          /\ \A i \in DOMAIN contours :
                ~IsDigitContour(contours[i]) => pred[i] = NoDigit
          /\ all_results' = AllNumbersFrom(contours, pred, 1)
    /\ final_results' = IF all_results' = <<>> THEN <<>> ELSE SortedByX(all_results')
    /\ numbers' = NumbersOf(final_results')
    /\ pc' = "done"
    /\ UNCHANGED <<more, entry, image, method_idx, digits, region_idx, raised, detected,
                   classified, run, first_numbers, contours, text, extractor,
                   failing, channels, variants>>

(***************************************************************************)
(* Text extractors.  A text is a sequence of characters; "sp" is a space   *)
(* and "nl" a line break.                                                  *)
(***************************************************************************)
Chars == {"0", "1", "5", "a", "sp", "nl"}

IsDigit(c) == c \in {"0", "1", "5"}

IsSpace(c) == c \in {"sp", "nl"}

\* \w
IsWord(c) == IsDigit(c) \/ c = "a"

DigitVal(c) == IF c = "0" THEN 0 ELSE IF c = "1" THEN 1 ELSE 5

\* int(match)
RECURSIVE IntFrom(_, _)
IntFrom(tok, acc) ==
    IF tok = <<>> THEN acc ELSE IntFrom(Tail(tok), 10 * acc + DigitVal(Head(tok)))

IntOf(tok) == IntFrom(tok, 0)

\* the last index of the run of digits that starts at i
RunEnd(t, i) ==
    CHOOSE e \in i..Len(t) :
        /\ \A k \in i..e : IsDigit(t[k])
        /\ (e = Len(t) \/ ~IsDigit(t[e + 1]))

\* re.finditer(r'\d+', t): the maximal runs of digits, left to right
RECURSIVE FindDigitRuns(_, _)
FindDigitRuns(t, i) ==
    IF i > Len(t) THEN <<>>
    ELSE IF IsDigit(t[i])
         THEN <<SubSeq(t, i, RunEnd(t, i))>> \o FindDigitRuns(t, RunEnd(t, i) + 1)
         ELSE FindDigitRuns(t, i + 1)

\* re.findall(r'\b\d+\b', t): the runs of digits with a word boundary on
\* both sides
RECURSIVE FindBoundedRuns(_, _)
FindBoundedRuns(t, i) ==
    IF i > Len(t) THEN <<>>
    ELSE IF IsDigit(t[i]) /\ (i = 1 \/ ~IsWord(t[i - 1]))
         THEN LET e == RunEnd(t, i)
              IN  (IF e = Len(t) \/ ~IsWord(t[e + 1]) THEN <<SubSeq(t, i, e)>> ELSE <<>>)
                  \o FindBoundedRuns(t, e + 1)
         ELSE FindBoundedRuns(t, i + 1)

\* text.strip()
Strip(t) ==
    LET keep == {i \in DOMAIN t : ~IsSpace(t[i])}
    IN  IF keep = {} THEN <<>>
        ELSE SubSeq(t, CHOOSE i \in keep : \A j \in keep : i <= j,
                       CHOOSE i \in keep : \A j \in keep : j <= i)

\* re.sub(r'\s+', ' ', t)
RECURSIVE CollapseSpaces(_, _)
CollapseSpaces(t, i) ==
    IF i > Len(t) THEN <<>>
    ELSE IF IsSpace(t[i])
         THEN (IF i > 1 /\ IsSpace(t[i - 1]) THEN <<>> ELSE <<"sp">>)
              \o CollapseSpaces(t, i + 1)
         ELSE <<t[i]>> \o CollapseSpaces(t, i + 1)

\* text.replace(' ', '').replace('\n', ' ')
RECURSIVE DropSpaces(_)
DropSpaces(t) ==
    IF t = <<>> THEN <<>>
    ELSE IF Head(t) = "sp" THEN DropSpaces(Tail(t))
    ELSE IF Head(t) = "nl" THEN <<"sp">> \o DropSpaces(Tail(t))
    ELSE <<Head(t)>> \o DropSpaces(Tail(t))

\* the loop `for match in ...: num = int(match); if 0 <= num <= 36: append`
RECURSIVE ValidNumbers(_)
ValidNumbers(toks) ==
    IF toks = <<>> THEN <<>>
    ELSE (IF InRange(IntOf(Head(toks))) THEN <<IntOf(Head(toks))>> ELSE <<>>)
         \o ValidNumbers(Tail(toks))

\* list(dict.fromkeys(valid_numbers))
RECURSIVE FromKeys(_, _)
FromKeys(rest, acc) ==
    IF rest = <<>> THEN acc
    ELSE FromKeys(Tail(rest),
                  IF Head(rest) \in Range(acc) THEN acc ELSE Append(acc, Head(rest)))

KeepAll(s) == s

DictFromKeys(s) == FromKeys(s, <<>>)

\* screen_ocr_opencv.py, ScreenOCRTool.extract_roulette_numbers_from_text
\* (simple_ocr_tool.py, SimpleOCRTool.extract_roulette_numbers is the same code)
RouletteNumbersFromText(t) ==
    DictFromKeys(ValidNumbers(FindBoundedRuns(CollapseSpaces(Strip(t), 1), 1)))

\* screen_ocr_opencv.py, ScreenOCRTool.extract_numbers_from_text
NumbersFromText(t) ==
    DictFromKeys(ValidNumbers(FindBoundedRuns(DropSpaces(t), 1)))

\* roulette_ninja_extractor.py, extract_roulette_numbers
RouletteNumbers(t) ==
    IF t = <<>> THEN <<>>
    ELSE DictFromKeys(ValidNumbers(FindBoundedRuns(t, 1)))

\* screen_ocr.py, ScreenOCRTool.extract_numbers_simple_roulette, on the
\* text tesseract returned
NumbersSimpleRoulette(t) == ValidNumbers(FindDigitRuns(t, 1))

Returns(name, result) ==
    /\ entry = "text"
    /\ pc = "call"
    /\ extractor' = name
    /\ numbers' = result
    /\ pc' = "done"
    /\ UNCHANGED <<more, entry, image, method_idx, digits, region_idx, all_results,
                   final_results, raised, detected, classified, run,
                   first_numbers, contours, text, failing, channels, variants>>

ExtractRouletteNumbersFromText ==
    Returns("extract_roulette_numbers_from_text", RouletteNumbersFromText(text))

ExtractNumbersFromText ==
    Returns("extract_numbers_from_text", NumbersFromText(text))

ExtractRouletteNumbers ==
    Returns("extract_roulette_numbers", RouletteNumbers(text))

ExtractNumbersSimpleRoulette ==
    Returns("extract_numbers_simple_roulette", NumbersSimpleRoulette(text))

(***************************************************************************)
(* preprocess_image_advanced (screen_ocr.py).  `failing` is the set of     *)
(* OpenCV calls that raise on the image, `channels` says whether the array *)
(* is 3-dimensional (then cvtColor is called).                             *)
(***************************************************************************)
PreSteps ==
    <<"cvtColor", "GaussianBlur", "threshold1", "adaptiveThreshold", "CLAHE",
      "filter2D", "threshold2", "close1", "open1", "close2", "open2", "Canny",
      "dilate">>

AllVariants == {"original_gray", "standard", "adaptive", "enhanced", "edges"}

\* the calls the try block makes on the image
Executed(ch) == {st \in Range(PreSteps) : st = "cvtColor" => ch = 3}

\* the value of the `except` branch: the gray conversion is done again
Fallback(fail, ch) ==
    IF ch = 3 /\ "cvtColor" \in fail
    THEN [raised |-> TRUE, variants |-> {}]
    ELSE [raised |-> FALSE, variants |-> {"original_gray"}]

PreprocessImageAdvanced(fail, ch) ==
    IF Executed(ch) \cap fail = {}
    THEN [raised |-> FALSE, variants |-> AllVariants]
    ELSE Fallback(fail, ch)

Preprocess ==
    /\ entry = "pre"
    /\ pc = "call"
    /\ raised' = PreprocessImageAdvanced(failing, channels).raised
    /\ variants' = PreprocessImageAdvanced(failing, channels).variants
    /\ pc' = "done"
    /\ UNCHANGED <<more, entry, image, method_idx, digits, region_idx, all_results,
                   final_results, numbers, detected, classified, run,
                   first_numbers, contours, text, extractor, failing, channels>>

(***************************************************************************)
(* extract_numbers_opencv (screen_ocr_opencv.py).  The frame is the        *)
(* captured image: `present` is FALSE for None, `api_text` is the text the *)
(* OCR service answers for it, `requests` says whether the requests        *)
(* library was imported.                                                   *)
(***************************************************************************)
ApiTexts == {<<>>, <<"sp">>, <<"a">>, <<"5">>, <<"5", "sp", "1", "5">>}

Frames ==
    [present : BOOLEAN, width : {0, 40}, height : {0, 30}, channels : {1, 3},
     requests : BOOLEAN, api_text : ApiTexts]

\* np.array(image) has no pixel
IsEmptyFrame(f) == f.width = 0 \/ f.height = 0

\* cv2.cvtColor (colour frame) and cv2.imwrite raise cv2.error on an array
\* without pixels
GrayConversionRaises(f) == IsEmptyFrame(f)

\* try_api_ninjas_text_only: the stripped text of the answer
TryApiNinjasTextOnly(f) == Strip(f.api_text)

\* the value the call returns and whether it raises to its caller
ExtractNumbersOpencv(f) ==
    IF ~f.present THEN [numbers |-> <<>>, raised |-> FALSE]
    ELSE IF GrayConversionRaises(f) THEN [numbers |-> <<>>, raised |-> FALSE]
    ELSE IF f.requests /\ TryApiNinjasTextOnly(f) # <<>>
         THEN [numbers |-> RouletteNumbersFromText(TryApiNinjasTextOnly(f)),
               raised |-> FALSE]
    ELSE [numbers |-> <<>>, raised |-> FALSE]

ExtractNumbers ==
    /\ entry = "extract"
    /\ pc = "call"
    /\ numbers' = ExtractNumbersOpencv(frame).numbers
    /\ raised' = ExtractNumbersOpencv(frame).raised
    /\ pc' = "done"
    /\ UNCHANGED <<entry, features, webVars, core, frame, digit_img, template_result,
                   predicted, consulted, confidence, trackerVars, detectorVars>>

(***************************************************************************)
(* classify_digit_by_features and calculate_digit_confidence on one        *)
(* region (screen_ocr_opencv.py).                                          *)
(***************************************************************************)
ScoreDigits == {0, 3, 7, 9}

ScoreValues == {0, 30, 31, 80}

\* the correlations of a region with the ten templates
ScoreVectors ==
    {[k \in 1..10 |-> IF k = a + 1 THEN va ELSE IF k = b + 1 THEN vb ELSE low] :
        a \in ScoreDigits, b \in ScoreDigits, va \in ScoreValues,
        vb \in ScoreValues, low \in {0, 10}}

FeatSamples ==
    {PlainFeat,
     [PlainFeat EXCEPT !.holes = 2],
     [PlainFeat EXCEPT !.holes = 1, !.fill_ratio = 45],
     [PlainFeat EXCEPT !.fill_ratio = 36, !.aspect_ratio = 60]}

ClassifierImgs ==
    [resize_ok : BOOLEAN, scores : ScoreVectors, feat_ok : BOOLEAN,
     feat : FeatSamples, lap_ok : {TRUE}, lap : {300}, hw : {400}]

ConfidenceImgs ==
    [resize_ok : {TRUE}, scores : {FlatScores}, feat_ok : {TRUE},
     feat : {PlainFeat}, lap_ok : BOOLEAN,
     lap : {0, 50, 199, 200, 999, 1000, 1001, 40000},
     hw : {1, 50, 150, 200, 999, 1000, 1001, 4000}]

TemplateNeverSucceeds(r) == FALSE

\* `if template_result is not None`
TemplateSucceeded(r) == r # NoDigit

\* classify_digit_by_features up to the return of the template result
MatchTemplate ==
    /\ entry = "classify"
    /\ pc = "call"
    /\ IF ~digit_img.resize_ok
       THEN /\ predicted' = NoDigit
            /\ pc' = "done"
            /\ UNCHANGED <<template_result, consulted>>
       ELSE /\ template_result' = TemplateMatchDigit(digit_img.scores)
            /\ consulted' = Append(consulted, "template")
            /\ IF TemplateSucceeded(template_result')
               THEN predicted' = template_result' /\ pc' = "done"
               ELSE pc' = "features" /\ UNCHANGED predicted
    /\ UNCHANGED <<entry, features, webVars, core, numbers, raised, frame, digit_img, confidence,
                   trackerVars, detectorVars>>

\* classify_digit_by_features after a template result of None
ClassifyFeatures ==
    /\ entry = "classify"
    /\ pc = "features"
    /\ consulted' = Append(consulted, "features")
    /\ predicted'
           \in ClassifyByEnhancedFeatures(digit_img.feat_ok, digit_img.feat)
    /\ pc' = "done"
    /\ UNCHANGED <<entry, features, webVars, core, numbers, raised, frame, digit_img,
                   template_result, confidence, trackerVars, detectorVars>>

CalculateConfidence ==
    /\ entry = "confidence"
    /\ pc = "call"
    /\ confidence' = CalculateDigitConfidence(digit_img)
    /\ pc' = "done"
    /\ UNCHANGED <<entry, features, webVars, core, numbers, raised, frame, digit_img,
                   template_result, predicted, consulted, trackerVars,
                   detectorVars>>

(***************************************************************************)
(* RouletteVoisinsTracker (voisins.py, voisins_gui.py, voisins_web.py,     *)
(* voisins_simple.py).  The four classes have the same add_number and      *)
(* reset; the class of voisins_simple.py also counts the rounds with a     *)
(* voisins number and the current streak of them.  In the other classes    *)
(* these two attributes do not exist; the model keeps them at 0.           *)
(***************************************************************************)
Versions == {"voisins", "voisins_gui", "voisins_web", "voisins_simple"}

voisins_numbers == {22, 18, 29, 7, 28, 12, 35, 3, 26, 0, 32, 15, 19, 4, 21, 2, 25}

\* the arguments add_number is called with
NumberInputs == {-1, 0, 5, 22, 36, 37}

\* __init__
NewTracker ==
    [voisins_numbers |-> voisins_numbers,
     rounds_without_voisins |-> 0,
     rounds_with_voisins |-> 0,
     consecutive_voisins_streak |-> 0,
     total_rounds |-> 0,
     history |-> <<>>]

IsVoisinsZeroOnly(t, number) == number = 0

\* is_voisins
IsVoisins(t, number) == number \in t.voisins_numbers

AcceptsAll(number) == TRUE

\* the test that guards the ValueError
IsRouletteNumber(number) == 0 <= number /\ number <= 36

AddNumberKeepsStreak(t, number, v) ==
    LET t1 == [t EXCEPT !.history = Append(t.history, number),
                        !.total_rounds = t.total_rounds + 1]
    IN  IF IsVoisins(t1, number)
        THEN [t1 EXCEPT !.rounds_without_voisins = 0,
                        !.rounds_with_voisins = t1.rounds_with_voisins + 1,
                        !.consecutive_voisins_streak =
                            t1.consecutive_voisins_streak + 1]
        ELSE [t1 EXCEPT !.rounds_without_voisins = t1.rounds_without_voisins + 1]

AddNumberCountsVoisinsOnly(t, number, v) ==
    LET t1 == [t EXCEPT !.history = Append(t.history, number)]
    IN  IF IsVoisins(t1, number)
        THEN [t1 EXCEPT !.rounds_without_voisins = 0,
                        !.total_rounds = t.total_rounds + 1]
        ELSE [t1 EXCEPT !.rounds_without_voisins = t1.rounds_without_voisins + 1]

\* the attributes after add_number(number) with a number of 0..36
AddNumberTo(t, number, v) ==
    LET t1 == [t EXCEPT !.history = Append(t.history, number),
                        !.total_rounds = t.total_rounds + 1]
    IN  IF IsVoisins(t1, number)
        THEN IF v = "voisins_simple"
             THEN [t1 EXCEPT !.rounds_without_voisins = 0,
                             !.rounds_with_voisins = t1.rounds_with_voisins + 1,
                             !.consecutive_voisins_streak =
                                 t1.consecutive_voisins_streak + 1]
             ELSE [t1 EXCEPT !.rounds_without_voisins = 0]
        ELSE IF v = "voisins_simple"
             THEN [t1 EXCEPT !.rounds_without_voisins = t1.rounds_without_voisins + 1,
                             !.consecutive_voisins_streak = 0]
             ELSE [t1 EXCEPT !.rounds_without_voisins = t1.rounds_without_voisins + 1]

ResetKeepsHistory(t, v) ==
    [t EXCEPT !.rounds_without_voisins = 0, !.total_rounds = 0]

\* the attributes after reset()
ResetOf(t, v) ==
    IF v = "voisins_simple"
    THEN [t EXCEPT !.rounds_without_voisins = 0,
                   !.rounds_with_voisins = 0,
                   !.consecutive_voisins_streak = 0,
                   !.total_rounds = 0,
                   !.history = <<>>]
    ELSE [t EXCEPT !.rounds_without_voisins = 0,
                   !.total_rounds = 0,
                   !.history = <<>>]

\* tracker.add_number(number); the caller catches the ValueError
AddNumber ==
    /\ entry = "tracker"
    /\ Len(tracker.history) < MaxHistory
    /\ \E number \in NumberInputs :
          /\ last_call' = [op |-> "add_number", number |-> number]
          /\ IF ~IsRouletteNumber(number)
             THEN /\ raised' = TRUE
                  /\ UNCHANGED <<tracker, returned>>
             ELSE /\ raised' = FALSE
                  /\ tracker' = AddNumberTo(tracker, number, version)
                  /\ returned' = IsVoisins(tracker, number)
    /\ before' = tracker
    /\ UNCHANGED <<entry, features, webVars, pc, core, numbers, vision, version, detectorVars>>

\* tracker.reset()
Reset ==
    /\ entry = "tracker"
    /\ last_call' = [op |-> "reset", number |-> 0]
    /\ tracker' = ResetOf(tracker, version)
    /\ before' = tracker
    /\ raised' = FALSE
    /\ UNCHANGED <<entry, features, webVars, pc, core, numbers, vision, version, returned,
                   detectorVars>>

(***************************************************************************)
(* Region detectors.  "contours", "edges", "thresholds" and "morphology"   *)
(* are the detectors of screen_ocr_opencv.py; "contours_basic" is          *)
(* detect_digits_by_contours of screen_ocr.py.  A pass is one              *)
(* preprocessing variant (contours), one threshold value (contours_basic)  *)
(* or the whole body (the others).  For each pass the input says whether   *)
(* an OpenCV call of the pass raises, and which contours it finds.  A      *)
(* contour is the record of its area, its bounding box (x, w, h) and, in   *)
(* hundredths, the density of white pixels of its region and of the middle *)
(* of its region.                                                          *)
(***************************************************************************)
Detectors == {"contours", "edges", "thresholds", "morphology", "contours_basic"}

NumPasses(d) ==
    IF d = "contours" THEN 4 ELSE IF d = "contours_basic" THEN 5 ELSE 1

\* the tests on area and bounding box; w / h is compared as a fraction
PassesSizeFilter(d, c) ==
    IF d = "contours"
    THEN /\ 100 < c.area /\ c.area < 5000
         /\ 2 * c.h <= 10 * c.w /\ c.w <= c.h
         /\ c.h > 15 /\ c.w > 8
    ELSE IF d = "contours_basic"
    THEN /\ 50 < c.area /\ c.area < 2000
         /\ 3 * c.h <= 10 * c.w /\ 10 * c.w <= 12 * c.h
         /\ c.h > 10 /\ c.w > 5
    ELSE IF d = "edges"
    THEN /\ 30 < c.area /\ c.area < 1500
         /\ 2 * c.h <= 10 * c.w /\ 10 * c.w <= 15 * c.h
         /\ c.h > 8 /\ c.w > 4
    ELSE IF d = "thresholds"
    THEN /\ 40 < c.area /\ c.area < 1800
         /\ 25 * c.h <= 100 * c.w /\ 10 * c.w <= 13 * c.h
         /\ c.h > 9 /\ c.w > 4
    ELSE /\ 35 < c.area /\ c.area < 1600
         /\ 3 * c.h <= 10 * c.w /\ 10 * c.w <= 12 * c.h
         /\ c.h > 8 /\ c.w > 5

\* solidity = contour_area / (w * h) > 0.3
IsSolid(c) == 10 * c.area > 3 * c.w * c.h

\* the number of pixels of digit_roi[h//4:3*h//4, w//4:3*w//4]
CenterSize(c) ==
    ((3 * c.h) \div 4 - c.h \div 4) * ((3 * c.w) \div 4 - c.w \div 4)

\* is_digit_quality
IsDigitQuality(c) ==
    IF c.w * c.h = 0 THEN FALSE
    ELSE IF c.density < 10 \/ c.density > 90 THEN FALSE
    ELSE IF CenterSize(c) > 0 /\ c.center_density < 5 THEN FALSE
    ELSE TRUE

\* whether the detector appends the contour to digits
KeepsContour(d, c) ==
    /\ PassesSizeFilter(d, c)
    /\ d = "contours" => IsSolid(c) /\ IsDigitQuality(c)

\* the regions of cs the detector appends, in order
RECURSIVE KeptFrom(_, _)
KeptFrom(d, cs) ==
    IF cs = <<>> THEN <<>>
    ELSE (IF KeepsContour(d, Head(cs)) THEN <<Head(cs)>> ELSE <<>>)
             \o KeptFrom(d, Tail(cs))

StopAtFailure(d, k) == "done"

\* where the detector goes when pass k raises: the contour detector of
\* screen_ocr_opencv.py catches inside the loop and continues, the others
\* catch around the whole body and return digits
AfterFailure(d, k) ==
    IF d = "contours" /\ k < NumPasses(d) THEN "scan" ELSE "done"

\* one pass of the detector; the last pass, and a failure outside the
\* contour detector's inner try, end with `return digits`
ScanPass ==
    /\ entry = "detect"
    /\ pc = "scan"
    /\ scanned' = scanned \cup {pass_idx}
    /\ IF scan[pass_idx].raises
       THEN /\ pc' = AfterFailure(detector, pass_idx)
            /\ UNCHANGED found
       ELSE /\ found' = found \o KeptFrom(detector, scan[pass_idx].contours)
            /\ pc' = IF pass_idx < NumPasses(detector) THEN "scan" ELSE "done"
    /\ pass_idx' = IF pc' = "scan" THEN pass_idx + 1 ELSE pass_idx
    /\ raised' = FALSE
    /\ UNCHANGED <<entry, features, webVars, core, numbers, vision, trackerVars, detector, scan>>

\* contours around the limits of the filters
DigitContour ==
    [x |-> 5, area |-> 600, w |-> 20, h |-> 30, density |-> 50,
     center_density |-> 30]

SmallContour ==
    [x |-> 40, area |-> 60, w |-> 8, h |-> 12, density |-> 50,
     center_density |-> 30]

WideContour ==
    [x |-> 70, area |-> 600, w |-> 33, h |-> 30, density |-> 50,
     center_density |-> 30]

HollowContour ==
    [x |-> 5, area |-> 150, w |-> 20, h |-> 30, density |-> 50,
     center_density |-> 2]

ScanContours == {DigitContour, SmallContour, WideContour, HollowContour}

\* the outcomes of one pass with at most `budget` contours
PassOutcomes(budget) ==
    {[raises |-> TRUE, contours |-> <<>>]}
        \cup {[raises |-> FALSE, contours |-> cs] :
                 cs \in SeqsUpTo(ScanContours, budget)}

\* the inputs of a detector with k passes and at most `budget` contours
RECURSIVE ScansFrom(_, _)
ScansFrom(k, budget) ==
    IF k = 0 THEN {<<>>}
    ELSE UNION {{<<o>> \o rest : rest \in ScansFrom(k - 1, budget - Len(o.contours))} :
                  o \in PassOutcomes(budget)}

(***************************************************************************)
(* classify_digit_by_features of screen_ocr.py.  The input is the record   *)
(* of what OpenCV measures on the region: `valid` is FALSE for None or an  *)
(* empty array, `resize_ok` says whether cv2.resize succeeds, and the five *)
(* features are what analyze_digit_features returns (holes is a count, the *)
(* four others are ratios in hundredths).                                  *)
(***************************************************************************)
NoFeatures ==
    [valid |-> FALSE, resize_ok |-> FALSE, holes |-> 0, h_lines |-> 0,
     v_lines |-> 0, curves |-> 0, density |-> 0]

FeatureVectors ==
    [valid : BOOLEAN, resize_ok : BOOLEAN, holes : {0, 1},
     h_lines : {20, 41, 51}, v_lines : {20, 30, 71},
     curves : {20, 51, 61}, density : {30, 31}]

PyOrSecond(a, b) == b

\* Python's `a or b` on integers: a when a is truthy (not 0), else b
PyOr(a, b) == IF a # 0 THEN a ELSE b

\* the values classify_digit_by_features of screen_ocr.py can return
ClassifyDigitByFeaturesBasic(f) ==
    IF ~f.valid \/ ~f.resize_ok THEN {NoDigit}
    ELSE IF f.holes >= 1 /\ f.density > 30
         THEN IF f.curves > 60 THEN {0}
              ELSE IF f.h_lines > 40 THEN {8}
              ELSE {PyOr(6, 9)}
    ELSE IF f.v_lines > 70 /\ f.h_lines < 30 THEN {1}
    ELSE IF f.h_lines > 50 /\ f.curves < 30
         THEN IF f.v_lines < 30 THEN {7} ELSE {4}
    ELSE IF f.curves > 50
         THEN IF f.h_lines > 40 THEN {PyOr(3, 5)} ELSE {PyOr(2, 5)}
    ELSE 1..9

\* a call of classify_digit_by_features of screen_ocr.py
ClassifyBasic ==
    /\ entry = "classify_basic"
    /\ pc = "call"
    /\ predicted' \in ClassifyDigitByFeaturesBasic(features)
    /\ pc' = "done"
    /\ UNCHANGED <<entry, features, webVars, core, numbers, raised, frame,
                   digit_img, template_result, consulted, confidence,
                   trackerVars, detectorVars>>

(***************************************************************************)
(* The web application (voisins_web.py, voisins_simple.py): the request    *)
(* handlers, the number parser and start_server.  `request` is the input   *)
(* of the operation and `response` the JSON object it answers or the value *)
(* it returns.                                                             *)
(***************************************************************************)
NoRequest == [path |-> "none"]

NoResponse == [success |-> FALSE, error |-> "none"]

\* ---- ScreenCaptureOCR.parse_numbers_from_text_ordered (voisins_web.py) ----
\* The request holds what tesseract finds on the processed image: `words`
\* are the items of image_to_data in its order (reading order), each with
\* its text and the x of its box; `data_ok` is FALSE when image_to_data
\* raises; `text` is what image_to_string returned for the same image.
WordTexts == {<<"5">>, <<"1">>, <<"1", "5">>, <<"5", "0">>, <<"a">>}

WordLefts == {10, 40}

OcrWords == [text : WordTexts, left : WordLefts]

\* the text of the items, separated by spaces
RECURSIVE JoinWords(_)
JoinWords(words) ==
    IF words = <<>> THEN <<>>
    ELSE IF Len(words) = 1 THEN words[1].text
    ELSE words[1].text \o <<"sp">> \o JoinWords(Tail(words))

\* str.isdigit()
IsDigitString(tok) == tok # <<>> /\ \A i \in DOMAIN tok : IsDigit(tok[i])

\* the loop that fills number_positions with (x, num)
RECURSIVE NumberPositions(_)
NumberPositions(words) ==
    IF words = <<>> THEN <<>>
    ELSE (IF IsDigitString(Head(words).text)
              /\ InRange(IntOf(Head(words).text))
          THEN <<[x |-> Head(words).left, num |-> IntOf(Head(words).text)]>>
          ELSE <<>>)
         \o NumberPositions(Tail(words))

\* number_positions.sort(key=lambda item: item[0], reverse=True): a stable
\* sort, items with the same x keep their order
RECURSIVE SortByXReverse(_, _)
SortByXReverse(rest, acc) ==
    IF rest = <<>> THEN acc
    ELSE LET item == Head(rest)
             k == Cardinality({i \in DOMAIN acc : acc[i].x >= item.x})
         IN  SortByXReverse(Tail(rest),
                 SubSeq(acc, 1, k) \o <<item>> \o SubSeq(acc, k + 1, Len(acc)))

\* re.sub(r'[^0-9\s]', ' ', text)
CleanedText(t) ==
    [i \in DOMAIN t |-> IF IsDigit(t[i]) \/ IsSpace(t[i]) THEN t[i] ELSE "sp"]

\* the fallback of parse_numbers_from_text_ordered
ParseFallback(t) == ValidNumbers(FindDigitRuns(CleanedText(t), 1))

ParseNumbersFromTextOrdered(req) ==
    IF req.data_ok
    THEN LET sorted == SortByXReverse(NumberPositions(req.words), <<>>)
         IN  [i \in DOMAIN sorted |-> sorted[i].num]
    ELSE ParseFallback(req.text)

\* a call of parse_numbers_from_text_ordered
ParseNumbers ==
    /\ entry = "parse"
    /\ pc = "call"
    /\ numbers' = ParseNumbersFromTextOrdered(request)
    /\ pc' = "done"
    /\ UNCHANGED <<entry, core, raised, vision, trackerVars, detectorVars,
                   features, webVars>>

\* ---- POST /analyze_numbers (voisins_web.py) ----
\* The request holds the decoded JSON body: `has_numbers` is FALSE when the
\* key 'numbers' is missing, `numbers` is the list.
\* the numbers of the posted lists
AnalyzeInputs == {0, 5, 22, 36}

AnalyzeBreakNever(num) == FALSE

\* `if is_voisins: break`
AnalyzeBreak(num) == num \in voisins_numbers

\* the loop over enumerate(numbers) from index i on: the count and the
\* details when the loop ends
RECURSIVE AnalyzeLoop(_, _, _, _)
AnalyzeLoop(nums, i, count, details) ==
    IF i > Len(nums) THEN [non_voisins_count |-> count, details |-> details]
    ELSE LET detail == [round |-> i, number |-> nums[i],
                        is_voisins |-> nums[i] \in voisins_numbers,
                        position |-> i]
         IN  IF AnalyzeBreak(nums[i])
             THEN [non_voisins_count |-> count,
                   details |-> Append(details, detail)]
             ELSE AnalyzeLoop(nums, i + 1, count + 1, Append(details, detail))

\* the response of the handler
AnalyzeNumbersResponse(req) ==
    IF ~req.has_numbers THEN [success |-> FALSE, error |-> "KeyError"]
    ELSE LET nums == req.numbers
             loop == AnalyzeLoop(nums, 1, 0, <<>>)
             count == IF loop.non_voisins_count = 0 /\ Len(nums) > 0
                          /\ nums[1] \notin voisins_numbers
                      THEN Len(nums)
                      ELSE loop.non_voisins_count
         IN  [success |-> TRUE,
              numbers |-> nums,
              non_voisins_count |-> count,
              analysis_details |-> loop.details,
              total_numbers_found |-> Len(nums)]

AnalyzeNumbers ==
    /\ entry = "analyze"
    /\ pc = "call"
    /\ response' = AnalyzeNumbersResponse(request)
    /\ pc' = "done"
    /\ UNCHANGED <<entry, core, numbers, raised, vision, trackerVars,
                   detectorVars, features, request, tried>>

\* ---- start_server (voisins_web.py, voisins_simple.py) ----
\* The request names the module and says, for each port, what binding it
\* does: it succeeds ("free"), fails with "Address already in use"
\* ("in_use") or fails with another OSError ("denied").
ServerVersions == {"voisins_web", "voisins_simple"}

\* `PORT = 8000`, `PORT = 8001`: the first statement of start_server
BasePort(v) == IF v = "voisins_web" THEN 8000 ELSE 8001

Ports == 8000..8002

PortStatus == {"free", "in_use", "denied"}

\* one call of start_server: the top-level call or the recursive call of
\* the handler of "Address already in use".  PORT is a local variable of
\* the call.  A call deeper than the interpreter's recursion limit raises
\* RecursionError, which no handler catches.
StartServer ==
    /\ entry = "server"
    /\ pc = "start"
    /\ LET PORT == BasePort(request.version)
       IN  /\ tried' = Append(tried, PORT)
           /\ IF request.status[PORT] = "free"
              THEN /\ pc' = "serving"
                   /\ response' = [success |-> TRUE, port |-> PORT]
                   /\ UNCHANGED raised
              ELSE IF request.status[PORT] = "in_use"
              THEN /\ response' = [success |-> FALSE, port |-> PORT,
                                   announced |-> PORT + 1]
                   /\ IF Len(tried') >= MaxRecursion
                      THEN pc' = "crashed" /\ raised' = TRUE
                      ELSE pc' = "start" /\ UNCHANGED raised
              ELSE /\ pc' = "stopped"
                   /\ response' = [success |-> FALSE, port |-> PORT]
                   /\ UNCHANGED raised
    /\ UNCHANGED <<entry, core, numbers, vision, trackerVars, detectorVars,
                   features, request>>

\* KeyboardInterrupt while serving: "Server stopped."
StopServer ==
    /\ entry = "server"
    /\ pc = "serving"
    /\ pc' = "stopped"
    /\ UNCHANGED <<entry, core, numbers, raised, vision, trackerVars,
                   detectorVars, features, webVars>>

\* ---- POST /add_number and GET /status (voisins_web.py, voisins_simple.py)
\* The request holds the value of the field 'number' of the form-encoded
\* body as a string, or says that parse_qs found no such field (a field
\* with a blank value is dropped by parse_qs).
DecimalDigits == <<"0", "1", "2", "3", "4", "5", "6", "7", "8", "9">>

DecimalValue(c) == (CHOOSE i \in 1..10 : DecimalDigits[i] = c) - 1

\* the digits of an int() literal, after its sign
Unsigned(s) == IF s # <<>> /\ Head(s) \in {"-", "+"} THEN Tail(s) ELSE s

\* int(s) does not raise ValueError
IsIntLiteral(s) ==
    /\ Unsigned(s) # <<>>
    /\ \A i \in DOMAIN Unsigned(s) : Unsigned(s)[i] \in Range(DecimalDigits)

RECURSIVE DecimalFrom(_, _)
DecimalFrom(s, acc) ==
    IF s = <<>> THEN acc
    ELSE DecimalFrom(Tail(s), 10 * acc + DecimalValue(Head(s)))

\* int(s)
IntValue(s) ==
    IF s # <<>> /\ Head(s) = "-" THEN 0 - DecimalFrom(Unsigned(s), 0)
    ELSE DecimalFrom(Unsigned(s), 0)

PostFields ==
    {[present |-> FALSE, value |-> <<>>]}
        \cup [present : {TRUE},
              value : {<<"5">>, <<"2", "2">>, <<"3", "6">>, <<"3", "7">>,
                       <<"-", "1">>, <<"a">>, <<"5", ".", "0">>}]

\* the exception the body of the try raises, "none" if it ends
PostError(field) ==
    IF ~field.present THEN "KeyError"
    ELSE IF ~IsIntLiteral(field.value) THEN "ValueError"
    ELSE IF ~IsRouletteNumber(IntValue(field.value)) THEN "ValueError"
    ELSE "none"

CatchesKeyErrorOnly(err) == err = "KeyError"

\* `except (ValueError, KeyError) as e`
Catches(err) == err \in {"ValueError", "KeyError"}

\* history[-10:] if len(history) > 10 else history
LastTen(h) == IF Len(h) > 10 THEN SubSeq(h, Len(h) - 9, Len(h)) ELSE h

\* get_status()
GetStatus(t, v) ==
    IF v = "voisins_simple"
    THEN [rounds_without_voisins |-> t.rounds_without_voisins,
          rounds_with_voisins |-> t.rounds_with_voisins,
          consecutive_voisins_streak |-> t.consecutive_voisins_streak,
          total_rounds |-> t.total_rounds,
          last_number |-> IF t.history = <<>> THEN NoDigit
                          ELSE t.history[Len(t.history)],
          voisins_numbers |-> t.voisins_numbers,
          history |-> LastTen(t.history)]
    ELSE [rounds_without_voisins |-> t.rounds_without_voisins,
          total_rounds |-> t.total_rounds,
          last_number |-> IF t.history = <<>> THEN NoDigit
                          ELSE t.history[Len(t.history)],
          voisins_numbers |-> t.voisins_numbers]

\* do_POST with the path /add_number on the global tracker
PostAddNumber ==
    /\ entry = "http"
    /\ Len(tracker.history) < MaxHistory
    /\ \E field \in PostFields :
          LET err == PostError(field)
          IN  /\ request' = [path |-> "/add_number", field |-> field]
              /\ last_call' = [op |-> "POST /add_number", field |-> field]
              /\ IF err = "none"
                 THEN LET number == IntValue(field.value)
                      IN  /\ tracker' = AddNumberTo(tracker, number, version)
                          /\ returned' = IsVoisins(tracker, number)
                          /\ raised' = FALSE
                          /\ response' =
                                 [success |-> TRUE,
                                  is_voisins |-> returned',
                                  number |-> number,
                                  status |-> GetStatus(tracker', version)]
                 ELSE /\ UNCHANGED <<tracker, returned>>
                      /\ IF Catches(err)
                         THEN /\ raised' = FALSE
                              /\ response' = [success |-> FALSE,
                                              error |-> err]
                         ELSE /\ raised' = TRUE
                              /\ response' = NoResponse
    /\ before' = tracker
    /\ UNCHANGED <<entry, pc, core, numbers, vision, version, detectorVars,
                   features, tried>>

\* do_POST with the path /reset
PostReset ==
    /\ entry = "http"
    /\ request' = [path |-> "/reset"]
    /\ last_call' = [op |-> "POST /reset"]
    /\ tracker' = ResetOf(tracker, version)
    /\ response' = [success |-> TRUE, status |-> GetStatus(tracker', version)]
    /\ before' = tracker
    /\ raised' = FALSE
    /\ UNCHANGED <<entry, pc, core, numbers, vision, version, returned,
                   detectorVars, features, tried>>

\* do_GET with the path /status; last_call and before keep describing the
\* last POST
GetStatusRequest ==
    /\ entry = "http"
    /\ request' = [path |-> "/status"]
    /\ response' = [success |-> TRUE, status |-> GetStatus(tracker, version)]
    /\ UNCHANGED <<entry, pc, core, numbers, raised, vision, trackerVars,
                   detectorVars, features, tried>>

(***************************************************************************)
(* Specifications.                                                         *)
(***************************************************************************)
\* the values of the variables an entry point does not use
IdleLocal ==
    /\ image = EmptyImage
    /\ method_idx = 1
    /\ digits = <<>>
    /\ region_idx = 1
    /\ detected = {}
    /\ classified = 0
    /\ run = 1
    /\ first_numbers = <<>>

IdleSimple == contours = <<>>

IdleText ==
    /\ text = <<>>
    /\ extractor = "none"

IdlePre ==
    /\ failing = {}
    /\ channels = 1
    /\ variants = {}

NoFrame ==
    [present |-> FALSE, width |-> 0, height |-> 0, channels |-> 1,
     requests |-> FALSE, api_text |-> <<>>]

IdleExtract == frame = NoFrame

IdleClassify ==
    /\ digit_img = Glyph7
    /\ template_result = NoDigit
    /\ predicted = NoDigit
    /\ consulted = <<>>
    /\ confidence = 0

IdleTracker ==
    /\ version = "voisins"
    /\ tracker = NewTracker
    /\ before = NewTracker
    /\ last_call = [op |-> "none", number |-> 0]
    /\ returned = FALSE

IdleDetect ==
    /\ detector = "none"
    /\ scan = <<>>
    /\ pass_idx = 1
    /\ found = <<>>
    /\ scanned = {}

IdleFeatures == features = NoFeatures

IdleWeb == request = NoRequest /\ response = NoResponse /\ tried = <<>>

IdleMore ==
    /\ IdleExtract /\ IdleClassify /\ IdleTracker /\ IdleDetect
    /\ IdleFeatures /\ IdleWeb

NoResults ==
    /\ all_results = <<>>
    /\ final_results = <<>>
    /\ numbers = <<>>
    /\ raised = FALSE

\* a call of try_local_opencv_detection on an image
InitLocal ==
    /\ entry = "local"
    /\ pc = "detect"
    /\ image \in {[m \in Methods |-> img[m]] : img \in Images}
    /\ method_idx = 1
    /\ digits = <<>>
    /\ region_idx = 1
    /\ detected = {}
    /\ classified = 0
    /\ run = 1
    /\ first_numbers = <<>>
    /\ NoResults /\ IdleSimple /\ IdleText /\ IdlePre /\ IdleMore

\* a call of try_opencv_detection on an image
InitSimple ==
    /\ entry = "simple"
    /\ pc = "call"
    /\ contours \in SeqsUpTo(SampleContours, MaxContours)
    /\ NoResults /\ IdleLocal /\ IdleText /\ IdlePre /\ IdleMore

\* a call of one of the text extractors on an OCR text
InitText ==
    /\ entry = "text"
    /\ pc = "call"
    /\ text \in SeqsUpTo(Chars, MaxTextLen)
    /\ extractor = "none"
    /\ NoResults /\ IdleLocal /\ IdleSimple /\ IdlePre /\ IdleMore

\* the candidate lists the fusion step is applied to: candidates are
\* appended method by method
FuseXs == {5, 12, 40}

FuseNums == {3, 7}

FuseConfs == {800, 1600}

FuseMethods == {1, 2}

Candidates ==
    [x : FuseXs, num : FuseNums, conf : FuseConfs, method : FuseMethods]

CandidateLists ==
    {s \in SeqsUpTo(Candidates, MaxCands) :
        \A i, j \in DOMAIN s : i < j => s[i].method <= s[j].method}

InitFuse ==
    /\ entry = "fuse"
    /\ pc = "fuse"
    /\ all_results \in CandidateLists
    /\ final_results = <<>>
    /\ numbers = <<>>
    /\ raised = FALSE
    /\ IdleLocal /\ IdleSimple /\ IdleText /\ IdlePre /\ IdleMore

\* a call of extract_numbers_opencv on a captured image
InitExtract ==
    /\ entry = "extract"
    /\ pc = "call"
    /\ frame \in Frames
    /\ NoResults /\ IdleLocal /\ IdleSimple /\ IdleText /\ IdlePre
    /\ IdleClassify /\ IdleTracker /\ IdleDetect /\ IdleFeatures /\ IdleWeb

\* a call of classify_digit_by_features on a region
InitClassify ==
    /\ entry = "classify"
    /\ pc = "call"
    /\ digit_img \in ClassifierImgs
    /\ template_result = NoDigit
    /\ predicted = NoDigit
    /\ consulted = <<>>
    /\ confidence = 0
    /\ NoResults /\ IdleLocal /\ IdleSimple /\ IdleText /\ IdlePre
    /\ IdleExtract /\ IdleTracker /\ IdleDetect /\ IdleFeatures /\ IdleWeb

\* a call of calculate_digit_confidence on a region
InitConfidence ==
    /\ entry = "confidence"
    /\ pc = "call"
    /\ digit_img \in ConfidenceImgs
    /\ template_result = NoDigit
    /\ predicted = NoDigit
    /\ consulted = <<>>
    /\ confidence = 0
    /\ NoResults /\ IdleLocal /\ IdleSimple /\ IdleText /\ IdlePre
    /\ IdleExtract /\ IdleTracker /\ IdleDetect /\ IdleFeatures /\ IdleWeb

\* a call of preprocess_image_advanced on an image
InitPre ==
    /\ entry = "pre"
    /\ pc = "call"
    /\ failing \in SUBSET Range(PreSteps)
    /\ channels \in {1, 3}
    /\ variants = {}
    /\ NoResults /\ IdleLocal /\ IdleSimple /\ IdleText /\ IdleMore

Init == InitLocal \/ InitSimple \/ InitText

Next ==
    \/ Detect
    \/ Classify
    \/ Fuse
    \/ Build
    \/ TryOpencvDetection
    \/ ExtractRouletteNumbersFromText
    \/ ExtractNumbersFromText
    \/ ExtractRouletteNumbers
    \/ ExtractNumbersSimpleRoulette

Spec == Init /\ [][Next]_vars

\* the pipeline run twice on the same image
NextTwice == Detect \/ Classify \/ Fuse \/ Build \/ Rerun

SpecTwice == InitLocal /\ [][NextTwice]_vars

\* the fusion step on its own
NextFuse == Fuse \/ Build

SpecFuse == InitFuse /\ [][NextFuse]_vars

\* the preprocessor
SpecPre == InitPre /\ [][Preprocess]_vars

\* the frame entry point, the region classifier and the region detectors
\* a call of classify_digit_by_features of screen_ocr.py on a region
InitClassifyBasic ==
    /\ entry = "classify_basic"
    /\ pc = "call"
    /\ features \in FeatureVectors
    /\ NoResults /\ IdleLocal /\ IdleSimple /\ IdleText /\ IdlePre
    /\ IdleExtract /\ IdleClassify /\ IdleTracker /\ IdleDetect /\ IdleWeb

InitVision ==
    InitExtract \/ InitClassify \/ InitConfidence \/ InitClassifyBasic

NextVision ==
    \/ ExtractNumbers
    \/ MatchTemplate
    \/ ClassifyFeatures
    \/ CalculateConfidence
    \/ ClassifyBasic

SpecVision == InitVision /\ [][NextVision]_vars

\* a new tracker object of one of the four classes
InitTracker ==
    /\ entry = "tracker"
    /\ pc = "idle"
    /\ version \in Versions
    /\ tracker = NewTracker
    /\ before = NewTracker
    /\ last_call = [op |-> "none", number |-> 0]
    /\ returned = FALSE
    /\ NoResults /\ IdleLocal /\ IdleSimple /\ IdleText /\ IdlePre
    /\ IdleExtract /\ IdleClassify /\ IdleDetect /\ IdleFeatures /\ IdleWeb

NextTracker == AddNumber \/ Reset

SpecTracker == InitTracker /\ [][NextTracker]_vars

\* a call of parse_numbers_from_text_ordered on an image
InitParse ==
    /\ entry = "parse"
    /\ pc = "call"
    /\ \E words \in SeqsUpTo(OcrWords, MaxWords), ok \in BOOLEAN :
          request = [path |-> "parse_numbers_from_text_ordered",
                     data_ok |-> ok, words |-> words,
                     text |-> JoinWords(words)]
    /\ response = NoResponse
    /\ tried = <<>>
    /\ NoResults /\ IdleLocal /\ IdleSimple /\ IdleText /\ IdlePre
    /\ IdleExtract /\ IdleClassify /\ IdleTracker /\ IdleDetect
    /\ IdleFeatures

\* a POST /analyze_numbers
InitAnalyze ==
    /\ entry = "analyze"
    /\ pc = "call"
    /\ \E nums \in SeqsUpTo(AnalyzeInputs, MaxNumbers), has \in BOOLEAN :
          request = [path |-> "/analyze_numbers", has_numbers |-> has,
                     numbers |-> IF has THEN nums ELSE <<>>]
    /\ response = NoResponse
    /\ tried = <<>>
    /\ NoResults /\ IdleLocal /\ IdleSimple /\ IdleText /\ IdlePre
    /\ IdleExtract /\ IdleClassify /\ IdleTracker /\ IdleDetect
    /\ IdleFeatures

\* the start of the web server of one of the two modules
InitServer ==
    /\ entry = "server"
    /\ pc = "start"
    /\ \E v \in ServerVersions, status \in [Ports -> PortStatus] :
          request = [path |-> "start_server", version |-> v,
                     status |-> status]
    /\ response = NoResponse
    /\ tried = <<>>
    /\ NoResults /\ IdleLocal /\ IdleSimple /\ IdleText /\ IdlePre
    /\ IdleExtract /\ IdleClassify /\ IdleTracker /\ IdleDetect
    /\ IdleFeatures

InitWeb == InitParse \/ InitAnalyze \/ InitServer

NextWeb ==
    \/ ParseNumbers
    \/ AnalyzeNumbers
    \/ StartServer
    \/ StopServer

SpecWeb == InitWeb /\ [][NextWeb]_vars

\* the global tracker of a web module when the server starts
InitHttp ==
    /\ entry = "http"
    /\ pc = "idle"
    /\ version \in ServerVersions
    /\ tracker = NewTracker
    /\ before = NewTracker
    /\ last_call = [op |-> "none", number |-> 0]
    /\ returned = FALSE
    /\ NoResults /\ IdleLocal /\ IdleSimple /\ IdleText /\ IdlePre
    /\ IdleExtract /\ IdleClassify /\ IdleDetect /\ IdleFeatures /\ IdleWeb

NextHttp ==
    \/ PostAddNumber
    \/ PostReset
    \/ GetStatusRequest

SpecHttp == InitHttp /\ [][NextHttp]_vars

\* a call of a region detector on an image
InitDetect ==
    /\ entry = "detect"
    /\ pc = "scan"
    /\ detector \in Detectors
    /\ scan \in ScansFrom(NumPasses(detector), MaxScanContours)
    /\ pass_idx = 1
    /\ found = <<>>
    /\ scanned = {}
    /\ NoResults /\ IdleLocal /\ IdleSimple /\ IdleText /\ IdlePre
    /\ IdleExtract /\ IdleClassify /\ IdleTracker /\ IdleFeatures /\ IdleWeb

SpecDetect == InitDetect /\ [][ScanPass]_vars

(***************************************************************************)
(* Claims.                                                                 *)
(***************************************************************************)
\* the sequence with the elements of the finite set S of integers, ascending
Ascending(S) ==
    [k \in 1..Cardinality(S) |->
        CHOOSE i \in S : Cardinality({j \in S : j <= i}) = k]

\* the places where a run of digits starts in t
DigitRunStarts(t) ==
    {i \in DOMAIN t : IsDigit(t[i]) /\ (i = 1 \/ ~IsDigit(t[i - 1]))}

\* those with a word boundary on both sides of the run
BoundedRunStarts(t) ==
    {i \in DigitRunStarts(t) :
        /\ (i = 1 \/ ~IsWord(t[i - 1]))
        /\ (RunEnd(t, i) = Len(t) \/ ~IsWord(t[RunEnd(t, i) + 1]))}

RunValue(t, i) == IntOf(SubSeq(t, i, RunEnd(t, i)))

\* the numbers of 0..36 written in t at the places `starts`, in text order
FilteredSequence(t, starts) ==
    LET kept == Ascending({i \in starts : RunValue(t, i) <= 36})
    IN  [k \in DOMAIN kept |-> RunValue(t, kept[k])]

FirstIndex(s, v) == CHOOSE i \in DOMAIN s : s[i] = v /\ \A j \in 1..(i - 1) : s[j] # v

\* r lists each value of f once, in the order of the first occurrences in f
IsFirstOccurrenceDedup(r, f) ==
    /\ \A i, j \in DOMAIN r : i # j => r[i] # r[j]
    /\ Range(r) = Range(f)
    /\ \A i, j \in DOMAIN r : i < j => FirstIndex(f, r[i]) < FirstIndex(f, r[j])

\* C1: every integer the local pipeline, the basic detection and the text
\* extractors return lies in 0..36; a value outside 0..36 never appears in
\* the result.
C1_ResultInRange ==
    /\ \A i \in DOMAIN numbers : numbers[i] \in 0..36
    /\ \A i \in DOMAIN all_results : all_results[i].num \in 0..36

\* C1 witness: an extractor has returned the numbers of a text that also
\* holds a number above 36.
C1_Witness ==
    /\ entry = "text"
    /\ pc = "done"
    /\ \E i \in BoundedRunStarts(text) : RunValue(text, i) > 36
    /\ extractor = "extract_roulette_numbers_from_text"
    /\ numbers # <<>>

\* C2 (as claimed): after fusion, every spatial bucket floor(x / 30) whose
\* candidates have pairwise distinct confidences holds exactly one survivor,
\* the candidate of the bucket with the highest confidence, whatever the
\* digits of the candidates.
C2_OneSurvivorPerBucket ==
    (entry = "fuse" /\ pc = "done") =>
        \A b \in {all_results[i].x \div 30 : i \in DOMAIN all_results} :
            LET group == {i \in DOMAIN all_results : all_results[i].x \div 30 = b}
                surv == {i \in DOMAIN final_results : final_results[i].x \div 30 = b}
            IN  (\A i, j \in group :
                    i # j => all_results[i].conf # all_results[j].conf)
                => /\ Cardinality(surv) = 1
                   /\ \A i \in surv : \A j \in group :
                         all_results[j].conf <= final_results[i].conf

\* C3 (as claimed): the fused output does not depend on the submission
\* order: fusing any permutation of the candidate list gives the same
\* survivors.
C3_OrderIndependent ==
    (entry = "fuse" /\ pc = "done" /\ all_results # <<>>) =>
        \A p \in Permutations(DOMAIN all_results) :
            FuseResults([i \in DOMAIN all_results |-> all_results[p[i]]])
                = final_results

\* C4: in the sequence returned by the local pipeline and by the basic
\* detection, the survivors are in left-to-right order: for survivors A and
\* B with A.x < B.x, A's value comes before B's value.
C4_LeftToRight ==
    (entry \in {"local", "simple"} /\ pc = "done") =>
        /\ Len(numbers) = Len(final_results)
        /\ \A i \in DOMAIN final_results : numbers[i] = final_results[i].num
        /\ \A i, j \in DOMAIN final_results :
              final_results[i].x < final_results[j].x => i < j

\* C4 witness: the pipeline returned two numbers whose candidates were
\* found right to left.
C4_Witness ==
    /\ entry = "local"
    /\ pc = "done"
    /\ Len(all_results) = 2
    /\ all_results[1].x > all_results[2].x
    /\ Len(numbers) = 2

\* C5 (as claimed): the second run of the pipeline on the same image
\* returns the sequence the first run returned.
C5_SameImageSameResult ==
    (entry = "local" /\ run = 2 /\ pc = "done") => numbers = first_numbers

\* C6: an extractor in unique mode returns every value of the filtered
\* sequence once, in the order of the first occurrences (global dedup); the
\* extractor in non-unique mode returns the filtered sequence as it is.
C6_Dedup ==
    (entry = "text" /\ pc = "done") =>
        /\ extractor \in {"extract_roulette_numbers_from_text",
                          "extract_roulette_numbers"}
           => IsFirstOccurrenceDedup(
                  numbers, FilteredSequence(text, BoundedRunStarts(text)))
        /\ extractor = "extract_numbers_simple_roulette"
           => numbers = FilteredSequence(text, DigitRunStarts(text))

\* C6 witness: the text "5 1 5" has been folded to [5, 1].
C6_Witness ==
    /\ entry = "text"
    /\ pc = "done"
    /\ text = <<"5", "sp", "1", "sp", "5">>
    /\ extractor = "extract_roulette_numbers_from_text"
    /\ numbers = <<5, 1>>

\* C7: candidates of one bucket that predict the same digit are fused into
\* exactly one survivor, which has the highest confidence among them, and
\* the result holds the digit once for that bucket.
C7_SameDigitFusedOnce ==
    (entry = "fuse" /\ pc = "done") =>
        /\ Len(numbers) = Len(final_results)
        /\ \A c \in Range(all_results) :
              LET group == {d \in Range(all_results) :
                               d.x \div 30 = c.x \div 30 /\ d.num = c.num}
                  surv == {i \in DOMAIN final_results :
                              /\ final_results[i].x \div 30 = c.x \div 30
                              /\ final_results[i].num = c.num}
              IN  /\ Cardinality(surv) = 1
                  /\ \A i \in surv :
                        /\ final_results[i] \in group
                        /\ \A d \in group : d.conf <= final_results[i].conf
                        /\ numbers[i] = c.num

\* C7 witness: digit 7 seen twice in one bucket with confidences 80% and
\* 40%, fused to [7] with the confidence 80%.
C7_Witness ==
    /\ entry = "fuse"
    /\ pc = "done"
    /\ Len(all_results) = 2
    /\ all_results[1].num = 7 /\ all_results[2].num = 7
    /\ all_results[1].x \div 30 = all_results[2].x \div 30
    /\ all_results[1].conf = 800 /\ all_results[2].conf = 1600
    /\ numbers = <<7>>
    /\ final_results[1].conf = 1600

\* the number of regions the detection methods return on the image
RECURSIVE RegionCount(_)
RegionCount(m) ==
    IF m = 0 THEN 0 ELSE RegionCount(m - 1) + Len(image[m].regions)

\* C8 (as claimed): no region is classified before every detector has
\* finished, and fusion does not start before every region is classified.
C8_StagesStrictlyOrdered ==
    entry = "local" =>
        /\ pc = "classify" => detected = Methods
        /\ pc \in {"fuse", "build"} =>
              detected = Methods /\ classified = RegionCount(NumMethods)

\* C8 (amended): the regions of a method are classified when its own
\* detector has returned and before the next detector runs; fusion starts
\* when every method has run and every returned region is classified;
\* sequence building starts when fusion is done.
C8_StagesPerMethod ==
    entry = "local" =>
        /\ pc = "classify" =>
              /\ detected = 1..method_idx
              /\ classified = RegionCount(method_idx - 1) + region_idx - 1
        /\ pc \in {"fuse", "build", "done"} =>
              detected = Methods /\ classified = RegionCount(NumMethods)
        /\ pc \in {"detect", "classify", "fuse"} =>
              final_results = <<>> /\ numbers = <<>>
        /\ pc = "build" => final_results # <<>> /\ numbers = <<>>

\* C8 witness: a region of the first method is being classified while the
\* three other detectors have not run.
C8_Witness ==
    /\ entry = "local"
    /\ pc = "classify"
    /\ detected = {1}
    /\ classified = 1

\* C9: when a detection method raises, or the classification of a region
\* fails, the other methods still run, their candidates reach fusion and the
\* pipeline returns a sequence.
C9_FailureDoesNotAbort ==
    (entry = "local" /\ pc = "done") =>
        /\ ~raised
        /\ detected = Methods
        /\ \A m \in Methods : \A k \in DOMAIN image[m].regions :
              \/ ClassifyDigitByFeatures(image[m].regions[k].img) = {NoDigit}
              \/ \E i \in DOMAIN all_results :
                    /\ all_results[i].method = m
                    /\ all_results[i].x = image[m].regions[k].x
                    /\ all_results[i].num
                           \in ClassifyDigitByFeatures(image[m].regions[k].img)
        /\ all_results # <<>> => Len(numbers) >= 1

\* C9 witness: the first method raised, a region of the second method could
\* not be classified, and a later candidate is in the returned sequence.
C9_Witness ==
    /\ entry = "local"
    /\ pc = "done"
    /\ image[1].raises
    /\ Len(image[2].regions) = 1
    /\ ~image[2].regions[1].img.resize_ok
    /\ Len(numbers) = 1

\* the OpenCV calls a variant is made of
VariantSteps(v) ==
    IF v = "original_gray" THEN {"cvtColor"}
    ELSE IF v = "standard" THEN {"cvtColor", "GaussianBlur", "threshold1", "close1", "open1"}
    ELSE IF v = "adaptive" THEN {"cvtColor", "adaptiveThreshold"}
    ELSE IF v = "enhanced"
         THEN {"cvtColor", "CLAHE", "filter2D", "threshold2", "close2", "open2"}
    ELSE {"cvtColor", "Canny", "dilate"}

\* C10 (as claimed): the preprocessor never fails, it returns the grayscale
\* variant in every case and every variant none of whose transforms raised.
C10_OnlyFailedVariantOmitted ==
    (entry = "pre" /\ pc = "done") =>
        /\ ~raised
        /\ "original_gray" \in variants
        /\ \A v \in AllVariants :
              VariantSteps(v) \cap Executed(channels) \cap failing = {}
                  => v \in variants

\* C11 (as claimed): for a frame of zero width or zero height the call does
\* not raise, returns the empty sequence, and what the caller gets differs
\* from what it gets for a frame with pixels in which nothing was found.
C11_InvalidInputSignalled ==
    (entry = "extract" /\ pc = "done" /\ frame.present /\ IsEmptyFrame(frame)) =>
        /\ ~raised
        /\ numbers = <<>>
        /\ \A f \in Frames :
              (f.present /\ ~IsEmptyFrame(f) /\ ExtractNumbersOpencv(f).numbers = <<>>)
                  => ExtractNumbersOpencv(f) # [numbers |-> numbers, raised |-> raised]

\* C12: the region classifier calls template matching first; when it
\* yields a digit that digit is the classification and the feature
\* heuristic is not called; the feature heuristic is called, and decides,
\* only when template matching reported no result.
C12_TemplateFirst ==
    entry = "classify" =>
        /\ pc = "features" =>
              consulted = <<"template">> /\ template_result = NoDigit
        /\ (pc = "done" /\ digit_img.resize_ok) =>
              /\ consulted[1] = "template"
              /\ template_result \in 0..9 =>
                    predicted = template_result /\ consulted = <<"template">>
              /\ template_result = NoDigit =>
                    /\ consulted = <<"template", "features">>
                    /\ predicted
                           \in ClassifyByEnhancedFeatures(digit_img.feat_ok,
                                                          digit_img.feat)
              /\ predicted \in ClassifyDigitByFeatures(digit_img)

\* C12 witness: the template of 0 matched a region the feature rules
\* would call an 8, and the classification is 0.
C12_Witness ==
    /\ entry = "classify"
    /\ pc = "done"
    /\ template_result = 0
    /\ predicted = 0
    /\ digit_img.feat_ok
    /\ digit_img.feat.holes = 2

\* the highest of the ten correlation scores
BestScore(scores) ==
    CHOOSE v \in Range(scores) : \A k \in DOMAIN scores : scores[k] <= v

\* C13: template matching returns a digit 0..9 whose score is the highest
\* of the ten templates when that score is strictly greater than 0.3, and
\* no result when the highest score is 0.3 or less.
C13_TemplateThreshold ==
    (entry = "classify" /\ consulted # <<>>) =>
        IF BestScore(digit_img.scores) > 30
        THEN /\ template_result \in 0..9
             /\ digit_img.scores[template_result + 1]
                    = BestScore(digit_img.scores)
        ELSE template_result = NoDigit

\* C13 witness: the best score is exactly 0.3 and template matching
\* reported no result.
C13_Witness ==
    /\ entry = "classify"
    /\ consulted # <<>>
    /\ BestScore(digit_img.scores) = 30
    /\ template_result = NoDigit

\* C14: for a non-empty region calculate_digit_confidence returns a value
\* in [10, 100] (200..2000 twentieths), on the error path too: half the
\* sum of the two scores capped at 100, clamped to [10, 100].
C14_ConfidenceClamped ==
    (entry = "confidence" /\ pc = "done") =>
        /\ 200 <= confidence /\ confidence <= 2000
        /\ digit_img.lap_ok =>
              LET clarity_score == IF digit_img.lap > 1000 THEN 1000 ELSE digit_img.lap
                  size_score == IF digit_img.hw > 1000 THEN 1000 ELSE digit_img.hw
                  sum == clarity_score + size_score
              IN  confidence = IF sum < 200 THEN 200 ELSE sum

\* C14 witness: a blurred region of 50 pixels, whose average of 2.5% is
\* raised to 10%.
C14_Witness ==
    /\ entry = "confidence"
    /\ pc = "done"
    /\ digit_img.lap_ok
    /\ digit_img.lap = 0
    /\ digit_img.hw = 50
    /\ confidence = 200

\* C15 (as claimed): every candidate that enters fusion or sorting has a
\* predicted digit in 0..9 and, where a confidence is computed, a
\* confidence greater than 0.
C15_CandidateIsOneDigit ==
    entry \in {"local", "simple"} =>
        \A i \in DOMAIN all_results :
            /\ all_results[i].num \in 0..9
            /\ entry = "local" => all_results[i].conf > 0

\* the length of the longest suffix of h without a voisins number
RECURSIVE VoisinsFreeSuffix(_)
VoisinsFreeSuffix(h) ==
    IF h = <<>> \/ h[Len(h)] \in voisins_numbers THEN 0
    ELSE 1 + VoisinsFreeSuffix(SubSeq(h, 1, Len(h) - 1))

\* C16: rounds_without_voisins is the number of numbers added since the
\* most recent voisins number, or since the last reset or the creation; and
\* add_number returns True exactly when the number added is one of the 17
\* voisins numbers.
C16_RoundsWithoutVoisins ==
    entry = "tracker" =>
        /\ Cardinality(tracker.voisins_numbers) = 17
        /\ tracker.rounds_without_voisins = VoisinsFreeSuffix(tracker.history)
        /\ (last_call.op = "add_number" /\ ~raised) =>
              /\ tracker.history[Len(tracker.history)] = last_call.number
              /\ returned = (last_call.number \in voisins_numbers)

\* C16 witness: 22, 5, 36 were added: two rounds since the voisins number.
C16_Witness ==
    /\ entry = "tracker"
    /\ tracker.history = <<22, 5, 36>>
    /\ tracker.rounds_without_voisins = 2
    /\ returned = FALSE

\* C17: add_number(n) with n < 0 or n > 36 raises ValueError and leaves
\* the history, total_rounds and every counter as they were.
C17_InvalidNumberRejected ==
    (entry = "tracker" /\ last_call.op = "add_number"
        /\ (last_call.number < 0 \/ last_call.number > 36)) =>
        raised /\ tracker = before

\* C17 witness: add_number(37) was refused on a tracker that holds a
\* history.
C17_Witness ==
    /\ entry = "tracker"
    /\ last_call = [op |-> "add_number", number |-> 37]
    /\ raised
    /\ tracker.history = <<5, 22>>

\* C18: reset() puts the tracker in the state of a new tracker, with the
\* voisins set as it was.
C18_ResetIsInitial ==
    (entry = "tracker" /\ last_call.op = "reset") =>
        /\ tracker = NewTracker
        /\ tracker.voisins_numbers = before.voisins_numbers

\* C18 witness: a tracker with three numbers in its history was reset.
C18_Witness ==
    /\ entry = "tracker"
    /\ last_call.op = "reset"
    /\ Len(before.history) = 3
    /\ before.rounds_without_voisins = 1
    /\ tracker.history = <<>>

\* the regions the passes that did not raise contribute, pass by pass
RECURSIVE KeptOfPasses(_, _, _)
KeptOfPasses(d, sc, k) ==
    IF k > Len(sc) THEN <<>>
    ELSE (IF sc[k].raises THEN <<>> ELSE KeptFrom(d, sc[k].contours))
             \o KeptOfPasses(d, sc, k + 1)

\* C19: no detector of screen_ocr_opencv.py raises to its caller, it
\* returns a list; and in the contour detector a preprocessing variant
\* that fails does not prevent the other variants from being scanned.
C19_DetectorsNeverRaise ==
    (entry = "detect" /\ detector # "contours_basic") =>
        /\ ~raised
        /\ found \in Seq(ScanContours)
        /\ (pc = "done" /\ detector = "contours") =>
              /\ scanned = 1..4
              /\ found = KeptOfPasses(detector, scan, 1)

\* C19 witness: the first variant of the contour detector failed and the
\* region of a later variant was returned.
C19_Witness ==
    /\ entry = "detect"
    /\ pc = "done"
    /\ detector = "contours"
    /\ scan[1].raises
    /\ scan[3].contours = <<DigitContour>>
    /\ found = <<DigitContour>>

\* C20 (as claimed): every region a contour detector returns has an area
\* above 100 and below the upper bound of its regime, a ratio w / h in
\* [0.2, 1.2], a height above 10 and a width above 5; in the strict variant
\* also a solidity above 0.3 and a middle region with content.
C20_ContourFilter ==
    (entry = "detect" /\ detector \in {"contours", "contours_basic"}) =>
        \A i \in DOMAIN found :
            LET c == found[i]
            IN  /\ c.area > 100
                /\ c.area < (IF detector = "contours" THEN 5000 ELSE 2000)
                /\ 2 * c.h <= 10 * c.w /\ 10 * c.w <= 12 * c.h
                /\ c.h > 10 /\ c.w > 5
                /\ detector = "contours" =>
                      10 * c.area > 3 * c.w * c.h /\ c.center_density >= 5

\* the branch of the rules of screen_ocr.py a feature vector falls in, for
\* the three branches whose return names two digits
AmbiguousBranch(f) ==
    IF f.holes >= 1 /\ f.density > 30
    THEN (IF f.curves <= 60 /\ f.h_lines <= 40 THEN "6 or 9" ELSE "none")
    ELSE IF (f.v_lines > 70 /\ f.h_lines < 30)
             \/ (f.h_lines > 50 /\ f.curves < 30) THEN "none"
    ELSE IF f.curves > 50
         THEN (IF f.h_lines > 40 THEN "3 or 5" ELSE "2 or 5")
    ELSE "none"

\* C21: in the feature classifier of screen_ocr.py the branches written
\* `return 6 or 9`, `return 3 or 5` and `return 2 or 5` return their first
\* operand, 6, 3 and 2: no feature vector makes them return 9 or 5.
C21_FirstOperandReturned ==
    (entry = "classify_basic" /\ pc = "done"
        /\ features.valid /\ features.resize_ok) =>
        /\ AmbiguousBranch(features) = "6 or 9" => predicted = 6
        /\ AmbiguousBranch(features) = "3 or 5" => predicted = 3
        /\ AmbiguousBranch(features) = "2 or 5" => predicted = 2

\* C21 witness: a region with a hole, few curves and few horizontal lines
\* was classified by the branch `return 6 or 9`.
C21_Witness ==
    /\ entry = "classify_basic"
    /\ pc = "done"
    /\ features.valid /\ features.resize_ok
    /\ AmbiguousBranch(features) = "6 or 9"
    /\ predicted = 6

\* the items of image_to_data that are a roulette number
NumberItems(words) ==
    {i \in DOMAIN words :
        IsDigitString(words[i].text) /\ InRange(IntOf(words[i].text))}

\* the ways to list the roulette numbers of the items rightmost first
RightmostFirst(words) ==
    LET idx == NumberItems(words)
        orders == {s \in [1..Cardinality(idx) -> idx] :
                      /\ \A i, j \in DOMAIN s : i # j => s[i] # s[j]
                      /\ \A i, j \in DOMAIN s :
                            i < j => words[s[i]].left >= words[s[j]].left}
    IN  {[k \in DOMAIN s |-> IntOf(words[s[k]].text)] : s \in orders}

\* C22 (as claimed): parse_numbers_from_text_ordered returns the roulette
\* numbers tesseract recognised rightmost first, by decreasing x, on every
\* path, the fallback without positions included.
C22_RightmostFirst ==
    (entry = "parse" /\ pc = "done") =>
        numbers \in RightmostFirst(request.words)

\* the index of the first voisins number of nums, Len(nums) + 1 if none
FirstVoisins(nums) ==
    LET at == {i \in DOMAIN nums : nums[i] \in voisins_numbers}
    IN  IF at = {} THEN Len(nums) + 1
        ELSE CHOOSE i \in at : \A j \in at : i <= j

\* C23: POST /analyze_numbers answers, for every list, the number of
\* elements before the first voisins number as non_voisins_count (the
\* length of the list when it holds none) and exactly the elements up to
\* and including that first voisins number as analysis_details.
C23_CountsUpToFirstVoisins ==
    (entry = "analyze" /\ pc = "done" /\ request.has_numbers) =>
        LET nums == request.numbers
            first == FirstVoisins(nums)
            upto == IF first > Len(nums) THEN Len(nums) ELSE first
        IN  /\ response.success
            /\ response.non_voisins_count = first - 1
            /\ Len(response.analysis_details) = upto
            /\ \A i \in 1..upto :
                  /\ response.analysis_details[i].number = nums[i]
                  /\ response.analysis_details[i].round = i
                  /\ response.analysis_details[i].is_voisins = (i = first)

\* C23 witness: a list with two non-voisins numbers, then a voisins number,
\* then another number was analysed.
C23_Witness ==
    /\ entry = "analyze"
    /\ pc = "done"
    /\ request.has_numbers
    /\ request.numbers = <<5, 36, 22, 5>>
    /\ response.non_voisins_count = 2
    /\ Len(response.analysis_details) = 3

\* C24 (as claimed): when the port P of start_server is in use and P + 1 is
\* free, the second attempt binds P + 1, the server ends up serving on
\* P + 1 and the retries end without an error.
C24_RetriesNextPort ==
    (entry = "server"
        /\ request.status[BasePort(request.version)] = "in_use"
        /\ request.status[BasePort(request.version) + 1] = "free") =>
        /\ Len(tried) >= 2 => tried[2] = BasePort(request.version) + 1
        /\ pc = "serving" => response.port = BasePort(request.version) + 1
        /\ pc # "crashed"

\* C25 (as claimed): extract_numbers_from_text returns, for every OCR text,
\* the list extract_roulette_numbers_from_text returns for it: the numbers
\* in 0..36 delimited by whitespace or word boundaries, once each, in the
\* order of their first occurrence.
C25_ExtractorsAgree ==
    (entry = "text" /\ pc = "done"
        /\ extractor = "extract_numbers_from_text") =>
        numbers = RouletteNumbersFromText(text)

\* the number of voisins numbers at the end of the history h
RECURSIVE VoisinsSuffix(_)
VoisinsSuffix(h) ==
    IF h = <<>> \/ h[Len(h)] \notin voisins_numbers THEN 0
    ELSE 1 + VoisinsSuffix(SubSeq(h, 1, Len(h) - 1))

\* C26: in the tracker of voisins_simple.py, after any sequence of
\* add_number and reset, consecutive_voisins_streak is the number of
\* voisins numbers at the end of the history, and as soon as a round was
\* played exactly one of rounds_without_voisins and
\* consecutive_voisins_streak is 0 (both are 0 only with no round played).
C26_StreakIsTrailingVoisins ==
    (entry = "tracker" /\ version = "voisins_simple") =>
        /\ tracker.consecutive_voisins_streak = VoisinsSuffix(tracker.history)
        /\ tracker.total_rounds > 0 =>
              (tracker.rounds_without_voisins = 0)
                  # (tracker.consecutive_voisins_streak = 0)
        /\ (tracker.rounds_without_voisins = 0
                /\ tracker.consecutive_voisins_streak = 0)
               => tracker.total_rounds = 0

\* C26 witness: after a reset, a non-voisins number and two voisins numbers
\* the streak is 2.
C26_Witness ==
    /\ entry = "tracker"
    /\ version = "voisins_simple"
    /\ tracker.history = <<5, 22, 0>>
    /\ tracker.consecutive_voisins_streak = 2
    /\ tracker.rounds_without_voisins = 0

\* C27: in every tracker class, after any sequence of add_number (accepted
\* or rejected) and reset, total_rounds is the length of the history, and
\* in the class of voisins_simple.py rounds_with_voisins is the number of
\* voisins numbers of the history.
C27_TotalRoundsIsHistoryLength ==
    entry = "tracker" =>
        /\ tracker.total_rounds = Len(tracker.history)
        /\ version = "voisins_simple" =>
              tracker.rounds_with_voisins =
                  Cardinality({i \in DOMAIN tracker.history :
                                  tracker.history[i] \in voisins_numbers})

\* C27 witness: a rejected number after three accepted ones, two of them
\* voisins numbers.
C27_Witness ==
    /\ entry = "tracker"
    /\ version = "voisins_simple"
    /\ last_call = [op |-> "add_number", number |-> 37]
    /\ raised
    /\ tracker.history = <<22, 5, 0>>
    /\ tracker.total_rounds = 3
    /\ tracker.rounds_with_voisins = 2

\* the field posted by the last POST /add_number is rejected
BadField(field) ==
    \/ ~field.present
    \/ ~IsIntLiteral(field.value)
    \/ IntValue(field.value) < 0
    \/ IntValue(field.value) > 36

\* C28: a POST /add_number without a field 'number', with a value that is
\* not an integer or with an integer outside 0..36 is answered with
\* success = false and leaves the global tracker as it was: a GET /status
\* that follows answers the status of before the request.
C28_BadPostLeavesTracker ==
    (entry = "http" /\ last_call.op = "POST /add_number"
        /\ BadField(last_call.field)) =>
        /\ ~raised
        /\ tracker = before
        /\ request.path = "/add_number" =>
              response # NoResponse /\ ~response.success
        /\ request.path = "/status" =>
              response.status = GetStatus(before, version)

\* C28 witness: the value 37 was posted to a tracker with two rounds, it
\* was rejected and the status was asked for.
C28_Witness ==
    /\ entry = "http"
    /\ last_call = [op |-> "POST /add_number",
                    field |-> [present |-> TRUE, value |-> <<"3", "7">>]]
    /\ request.path = "/status"
    /\ Len(tracker.history) = 2
    /\ response.status.total_rounds = 2

====
